---- MODULE Spec2Model ----
(***************************************************************************)
(* Model of the doozer command line driver (tools/src/doozer.py): the      *)
(* build-like commands that fan out over a worker pool (rpms:build,        *)
(* images:build, images:push), the sequential distgit flows                *)
(* (images:rebase, images:update-dockerfile, images:foreach) and the       *)
(* build-metrics aggregation (print_build_metrics).                        *)
(***************************************************************************)
EXTENDS Integers, Sequences, FiniteSets, TLC

\* ------------------------------------------------------------------------
\* Bounds of the model
\* ------------------------------------------------------------------------
MaxTargets == 3     \* at most this many selected targets in a run
MaxWorkers == 2     \* hardware-derived pool size ranges over 1..MaxWorkers
MaxVerLen  == 3     \* version strings have at most this many characters
MaxTasks   == 2     \* at most this many watched brew tasks
MaxTick    == 3     \* timestamps are TsUnit * (0..MaxTick)
MaxRelLen  == 2     \* release strings have at most this many characters
MaxCount   == 3     \* the COUNT of images:revert ranges over -1..MaxCount
TsUnit     == 40    \* granularity of the timestamps drawn as inputs

\* ------------------------------------------------------------------------
\* Program constants
\* ------------------------------------------------------------------------
PushThreads == 4    \* n_threads=4 of images:push
WalkStep    == 60   \* step of the minute walk in print_build_metrics

VARIABLES
    cmd,          \* the command being run
    opts,         \* its command line options
    n,            \* number of selected targets: metas are 1..n, in order
    late,         \* late[t]: config.push.late of image t
    pc,           \* position of the command's main thread
    exitStatus,   \* process exit status, meaningful once pc is terminal
    task,         \* task[t]: state of target t's job in the worker pool
    outcome,      \* outcome[t]: what the per-target operation did
    results,      \* the list behind the AsyncResult of parallel_exec
    terminate,    \* the shared terminate_event
    failed,       \* the list `failed` computed from zip(metas, results)
    pushed,       \* targets whose image was pushed by the main wave
    lateCalls,    \* targets for which push_image(push_late=True) was called
    pushedLate,   \* targets whose image was pushed by a late push
    idx,          \* loop index of the sequential loops
    metrics,      \* how print_build_metrics ended in this run
    records,      \* runtime.add_record log
    version,      \* the --version value as it evolves
    stage,        \* stage[t]: number of lifecycle steps done on target t
    cloned,       \* clone_distgits was called
    distgitsPushed, \* push_distgits was called
    raisedAt,     \* target whose step raised in a sequential loop, 0 if none
    watch_task_info, \* input of the metrics aggregation
    summary,      \* output of the metrics aggregation
    summary2,     \* output of a second aggregation over the same task infos
    fail_log,     \* verify_fail_log.yml: whether written, and its data
    remove_tmp_working_dir,  \* runtime.remove_tmp_working_dir
    release,          \* the --release option
    current_release,  \* the release label of the Dockerfile before the update
    real_release,     \* the release update_distgit_dir returns
    log_lock,         \* holder of the lock of the record log, 0 when free
    writer,           \* writer[w]: worker w's call of add_record
    failure_log,      \* the keys listed by the "Build/push failures:" error
    count,            \* the COUNT argument of images:revert
    reverts           \* the git revert commands run, in order

vars == <<cmd, opts, n, late, pc, exitStatus, task, outcome, results,
          terminate, failed, pushed, lateCalls, pushedLate, idx, metrics,
          records, version, stage, cloned, distgitsPushed, raisedAt,
          watch_task_info, summary, summary2, fail_log,
          remove_tmp_working_dir, release, current_release, real_release,
          log_lock, writer, failure_log, count, reverts>>

Targets == 1..MaxTargets
Items   == 1..n

BuildCmds == {"rpms:build", "images:build", "images:push"}

\* distgit_key of the t-th meta.  Keys are distinct; they are laid out in
\* the opposite order of the meta list so that sorting is observable.
distgit_key(t) == MaxTargets + 1 - t

Min(a, b) == IF a < b THEN a ELSE b

\* The process has ended: "done" is exit()/falling off the end of the
\* command, "crashed" is an uncaught exception (status 1).
Exited == pc \in {"done", "crashed"}

\* ------------------------------------------------------------------------
\* ParallelExecutor (runtime.parallel_exec) and the per-target operations
\* ------------------------------------------------------------------------
Outcomes == {"ok", "fail", "raise"}

\* Size of the worker pool.
PoolSize == IF cmd = "images:push" THEN PushThreads ELSE opts.n_threads

\* Mutant: only a returned failure is a failed result.
WrapResultLosesRaise(o) == IF o = "fail" THEN "False" ELSE "True"

\* An operation that raises is caught per task and becomes a failed result.
WrapResult(o) == IF o = "ok" THEN "True" ELSE "False"

\* Mutant: results are stored in completion order.
StoreResultCompletionOrder(res, t, r) ==
    LET k == CHOOSE i \in 1..Len(res) :
                 res[i] = "unset" /\ \A j \in 1..(i - 1) : res[j] # "unset"
    IN  [res EXCEPT ![k] = r]

\* The result of the task of the t-th target is stored at position t.
StoreResult(res, t, r) == [res EXCEPT ![t] = r]

\* Python truth value of a result ("unset" is None).
Truthy(r) == r = "True"

\* push_image(push_late=pl) acts only on images whose late flag equals pl;
\* for the others it returns success without pushing.
PushImageActs(t, pl) == late[t] = pl

\* Does the wave operation on target t, ending with outcome o, push t?
PushedByWave(t, o) ==
    /\ o = "ok"
    /\ \/ cmd = "images:push" /\ PushImageActs(t, FALSE)
       \/ cmd = "images:build" /\ opts.hasDest /\ PushImageActs(t, FALSE)

\* Mutant: results.get() returns as soon as one task has finished.
ResultsReadyAny == Items = {} \/ \E t \in Items : task[t] = "done"

\* results.get() returns once every task of the wave has finished.
ResultsReady == \A t \in Items : task[t] = "done"

\* failed = [m.distgit_key for m, r in zip(metas, results) if not r]
RECURSIVE FailedFrom(_, _)
FailedFrom(res, t) ==
    IF t > Min(n, Len(res)) THEN <<>>
    ELSE (IF Truthy(res[t]) THEN <<>> ELSE <<distgit_key(t)>>)
         \o FailedFrom(res, t + 1)

\* Mutant: "if r" instead of "if not r".
RECURSIVE FailedInvertedFrom(_, _)
FailedInvertedFrom(res, t) ==
    IF t > Min(n, Len(res)) THEN <<>>
    ELSE (IF Truthy(res[t]) THEN <<distgit_key(t)>> ELSE <<>>)
         \o FailedInvertedFrom(res, t + 1)

FailedInverted(res) == FailedInvertedFrom(res, 1)

Failed(res) == FailedFrom(res, 1)

\* Mutant: the keys are listed as they come.
sortedAsGiven(f) == f

RECURSIVE InsertSorted(_, _)
InsertSorted(x, f) ==
    IF f = <<>> THEN <<x>>
    ELSE IF x <= Head(f) THEN <<x>> \o f
    ELSE <<Head(f)>> \o InsertSorted(x, Tail(f))

\* sorted(failed)
RECURSIVE sorted(_)
sorted(f) == IF f = <<>> THEN <<>> ELSE InsertSorted(Head(f), sorted(Tail(f)))

\* Mutant: the command gives up only when several targets failed.
HasFailuresSeveral(f) == Len(f) > 1

\* if failed:
HasFailures(f) == f # <<>>

\* Mutant: the exit status is the number of failed targets.
FailureStatusCount(f) == Len(f)

\* exit(1) after the failure summary
FailureStatus(f) == 1

\* Mutant: the wave is skipped unless --late-only is given.
SkipsWaveInverted(o) == ~o.late_only

\* images:push: "if not late_only:" guards the main wave.
SkipsWave(o) == o.late_only

\* ------------------------------------------------------------------------
\* VersionResolver: version strings are sequences of characters; "1" stands
\* for a decimal digit and "x" for any character that is neither a digit,
\* a dot nor "v".
\* ------------------------------------------------------------------------
VersionChars == {"v", "1", ".", "x"}

VersionStrings == UNION {[1..m -> VersionChars] : m \in 0..MaxVerLen}

NoVersion   == <<"None">>    \* --version not given
AutoVersion == <<"auto">>    \* the sentinel "auto"

\* The dotted numeric pattern, optionally prefixed by v: v3.4, 1.2.3
valid_version(v) ==
    LET b == IF Len(v) > 0 /\ v[1] = "v" THEN Tail(v) ELSE v
    IN  /\ Len(b) > 0
        /\ \A i \in 1..Len(b) : b[i] \in {"1", "."}
        /\ b[1] = "1"
        /\ b[Len(b)] = "1"
        /\ \A i \in 1..(Len(b) - 1) : ~(b[i] = "." /\ b[i + 1] = ".")

\* Python truth value of the version option: None and "" are falsy.
VersionTruthy(v) == v # NoVersion /\ v # <<>>

\* Mutant: images:rebase guards the validation with "version and" too.
ValidateLenient(c, v) ==
    IF ~VersionTruthy(v) THEN "pass"
    ELSE IF valid_version(v) THEN "pass"
    ELSE "ValueError"

\* The validation guard of the command c on the resolved version v:
\* "pass", or the exception it raises.
\*   images:rebase             if not runtime.valid_version(version): raise
\*   images:update-dockerfile  if version and not runtime.valid_version(version): raise
Validate(c, v) ==
    IF c = "images:update-dockerfile" /\ ~VersionTruthy(v) THEN "pass"
    ELSE IF v = NoVersion THEN "TypeError"
    ELSE IF valid_version(v) THEN "pass"
    ELSE "ValueError"

\* ------------------------------------------------------------------------
\* Initial states
\* ------------------------------------------------------------------------
\* --release not given
NoRelease == <<"None">>

\* No release option, no Dockerfile release: the commands other than the
\* release resolution leave them alone.
InitNoRelease ==
    /\ release = NoRelease
    /\ current_release = NoRelease
    /\ real_release = NoRelease

NoOpts == [n_threads |-> 1, hasRepo |-> FALSE, hasDest |-> FALSE,
           late_only |-> FALSE, push |-> FALSE, message |-> FALSE]

\* No verify_fail_log.yml in the working directory
NoFailLog == [written |-> FALSE, data |-> <<>>]

\* A worker that has not called add_record
IdleWriter == [pc |-> "idle", type |-> "none", seen |-> <<>>]

InitCommon ==
    /\ pc = "start"
    /\ exitStatus = 0
    /\ task = [t \in Targets |-> "pending"]
    /\ outcome = [t \in Targets |-> "none"]
    /\ results = <<>>
    /\ terminate = FALSE
    /\ failed = <<>>
    /\ pushed = {}
    /\ lateCalls = {}
    /\ pushedLate = {}
    /\ idx = 0
    /\ metrics = "none"
    /\ records = <<>>
    /\ stage = [t \in Targets |-> 0]
    /\ cloned = FALSE
    /\ distgitsPushed = FALSE
    /\ raisedAt = 0
    /\ summary = <<>>
    /\ summary2 = <<>>
    /\ fail_log = NoFailLog
    /\ remove_tmp_working_dir = TRUE
    /\ log_lock = 0
    /\ failure_log = <<>>
    /\ reverts = <<>>
    /\ writer = [t \in Targets |-> IdleWriter]

InitBuild ==
    /\ cmd \in BuildCmds
    /\ n \in 0..MaxTargets
    /\ late \in [Targets -> BOOLEAN]
    /\ \A t \in Targets : late[t] => (t <= n /\ cmd # "rpms:build")
    /\ opts \in [n_threads : 1..MaxWorkers, hasRepo : BOOLEAN,
                 hasDest : BOOLEAN, late_only : BOOLEAN,
                 push : {FALSE}, message : {FALSE}]
    /\ cmd # "images:build" => ~opts.hasRepo
    /\ cmd = "rpms:build" => ~opts.hasDest
    /\ cmd # "images:push" => ~opts.late_only
    /\ cmd = "images:push" => opts.n_threads = 1
    /\ count = 1
    /\ version = NoVersion
    /\ watch_task_info = <<>>
    /\ InitNoRelease
    /\ InitCommon

\* ------------------------------------------------------------------------
\* rpms:build, images:build, images:push
\* ------------------------------------------------------------------------
UnchangedSeq == UNCHANGED <<version, stage, cloned, distgitsPushed, raisedAt>>
UnchangedMetrics == UNCHANGED <<watch_task_info, summary, summary2>>
UnchangedRun == UNCHANGED <<cmd, opts, n, late, count>>
UnchangedVerify == UNCHANGED <<fail_log, remove_tmp_working_dir>>
UnchangedRelease == UNCHANGED <<release, current_release, real_release>>
UnchangedRecorder == UNCHANGED <<log_lock, writer>>
UnchangedLog == UNCHANGED <<failure_log, reverts>>
UnchangedAux == UnchangedVerify /\ UnchangedRelease /\ UnchangedRecorder

\* runtime.parallel_exec(f, items): one pending task per item.
EnterPool ==
    /\ pc' = "exec"
    /\ results' = [t \in 1..n |-> "unset"]

Exit(status) ==
    /\ pc' = "done"
    /\ exitStatus' = status

\* Mutant: a command without items exits with status 0, whichever it is.
NoItemsStatusZero(c) == 0

\* if not items: log "No RPMs found" and exit(0) in rpms:build, log
\* "No images found" and exit(1) in images:build.
NoItemsStatus(c) == IF c = "rpms:build" THEN 0 ELSE 1

\* Mutant: no run-level input is ever found missing.
MissingRunInputNever(c, o) == FALSE

\* The early exits for a missing run-level input: images:build with neither
\* --repo-type nor --repo, images:push with neither --to-defaults nor --to.
MissingRunInput(c, o) ==
    \/ c = "images:build" /\ ~o.hasRepo
    \/ c = "images:push" /\ ~o.hasDest

rpms_build_start ==
    /\ pc = "start" /\ cmd = "rpms:build"
    /\ IF n = 0
       THEN Exit(NoItemsStatus(cmd)) /\ UNCHANGED results
       ELSE EnterPool /\ UNCHANGED exitStatus
    /\ UNCHANGED <<task, outcome, terminate, failed, pushed, lateCalls,
                   pushedLate, idx, metrics, records>>
    /\ UnchangedLog /\ UnchangedRun /\ UnchangedAux /\ UnchangedSeq /\ UnchangedMetrics

images_build_start ==
    /\ pc = "start" /\ cmd = "images:build"
    /\ IF n = 0
       THEN Exit(NoItemsStatus(cmd)) /\ UNCHANGED results
       ELSE IF MissingRunInput(cmd, opts)
            THEN Exit(1) /\ UNCHANGED results
            ELSE EnterPool /\ UNCHANGED exitStatus
    /\ UNCHANGED <<task, outcome, terminate, failed, pushed, lateCalls,
                   pushedLate, idx, metrics, records>>
    /\ UnchangedLog /\ UnchangedRun /\ UnchangedAux /\ UnchangedSeq /\ UnchangedMetrics

images_push_start ==
    /\ pc = "start" /\ cmd = "images:push"
    /\ IF MissingRunInput(cmd, opts)
       THEN Exit(1) /\ UNCHANGED <<results, idx>>
       ELSE IF SkipsWave(opts)
            THEN pc' = "late" /\ idx' = 1 /\ UNCHANGED <<results, exitStatus>>
            ELSE EnterPool /\ UNCHANGED <<exitStatus, idx>>
    /\ UNCHANGED <<task, outcome, terminate, failed, pushed, lateCalls,
                   pushedLate, metrics, records>>
    /\ UnchangedLog /\ UnchangedRun /\ UnchangedAux /\ UnchangedSeq /\ UnchangedMetrics

\* A free worker picks up the task of target t.  A task picked up after the
\* terminate_event was set sees the flag and gives up.
StartTask(t) ==
    /\ pc = "exec"
    /\ task[t] = "pending"
    /\ Cardinality({u \in Items : task[u] \in {"running", "aborting"}}) < PoolSize
    /\ task' = [task EXCEPT ![t] = IF terminate THEN "aborting" ELSE "running"]
    /\ UNCHANGED <<pc, exitStatus, outcome, results, terminate, failed,
                   pushed, lateCalls, pushedLate, idx, metrics, records>>
    /\ UnchangedLog /\ UnchangedRun /\ UnchangedAux /\ UnchangedSeq /\ UnchangedMetrics

\* The operation on target t ends with outcome o; its result is stored.
FinishTask(t, o) ==
    /\ pc = "exec"
    /\ task[t] \in {"running", "aborting"}
    /\ task[t] = "aborting" => o = "fail"
    /\ task' = [task EXCEPT ![t] = "done"]
    /\ outcome' = [outcome EXCEPT ![t] = o]
    /\ results' = StoreResult(results, t, WrapResult(o))
    /\ pushed' = IF PushedByWave(t, o) THEN pushed \cup {t} ELSE pushed
    /\ UNCHANGED <<pc, exitStatus, terminate, failed, lateCalls,
                   pushedLate, idx, metrics, records>>
    /\ UnchangedLog /\ UnchangedRun /\ UnchangedAux /\ UnchangedSeq /\ UnchangedMetrics

\* The cancellation flag is set while the wave is running.
Cancel ==
    /\ pc = "exec"
    /\ ~terminate
    /\ terminate' = TRUE
    /\ UNCHANGED <<pc, exitStatus, task, outcome, results, failed, pushed,
                   lateCalls, pushedLate, idx, metrics, records>>
    /\ UnchangedLog /\ UnchangedRun /\ UnchangedAux /\ UnchangedSeq /\ UnchangedMetrics

\* results = results.get()
Gather ==
    /\ pc = "exec"
    /\ ResultsReady
    /\ pc' = IF cmd = "images:build" THEN "metrics" ELSE "check"
    /\ UNCHANGED <<exitStatus, task, outcome, results, terminate, failed,
                   pushed, lateCalls, pushedLate, idx, metrics, records>>
    /\ UnchangedLog /\ UnchangedRun /\ UnchangedAux /\ UnchangedSeq /\ UnchangedMetrics

\* failed = [...]; if failed: log the sorted keys and exit(1)
CheckFailed ==
    /\ pc = "check"
    /\ failed' = Failed(results)
    /\ failure_log' = IF HasFailures(failed') THEN sorted(failed') ELSE <<>>
    /\ IF HasFailures(failed')
       THEN Exit(FailureStatus(failed')) /\ UNCHANGED idx
       ELSE IF cmd = "rpms:build"
            THEN Exit(0) /\ UNCHANGED idx
            ELSE pc' = "late" /\ idx' = 1 /\ UNCHANGED exitStatus
    /\ UNCHANGED <<task, outcome, results, terminate, pushed, lateCalls,
                   pushedLate, metrics, records, reverts>>
    /\ UnchangedRun /\ UnchangedAux /\ UnchangedSeq /\ UnchangedMetrics

\* Is push_image(push_late=True) called for the image at the loop index?
LateCalled(t) == cmd = "images:build" \/ late[t]

\* One iteration of "Push all late images" whose push_image call returns
\* (truthy when ok, falsy when not: the return value is ignored).
LatePush(ok) ==
    /\ pc = "late" /\ idx <= n
    /\ LateCalled(idx)
    /\ lateCalls' = lateCalls \cup {idx}
    /\ pushedLate' = IF ok /\ PushImageActs(idx, TRUE) /\ opts.hasDest
                     THEN pushedLate \cup {idx} ELSE pushedLate
    /\ idx' = idx + 1
    /\ UNCHANGED <<pc, exitStatus, task, outcome, results, terminate, failed,
                   pushed, metrics, records>>
    /\ UnchangedLog /\ UnchangedRun /\ UnchangedAux /\ UnchangedSeq /\ UnchangedMetrics

\* The push_image call of a late-loop iteration raises: nothing catches it.
LatePushRaise ==
    /\ pc = "late" /\ idx <= n
    /\ LateCalled(idx)
    /\ lateCalls' = lateCalls \cup {idx}
    /\ pc' = "crashed"
    /\ exitStatus' = 1
    /\ UNCHANGED <<task, outcome, results, terminate, failed, pushed,
                   pushedLate, idx, metrics, records>>
    /\ UnchangedLog /\ UnchangedRun /\ UnchangedAux /\ UnchangedSeq /\ UnchangedMetrics

\* images:push skips the images that are not late.
LateSkip ==
    /\ pc = "late" /\ idx <= n
    /\ ~LateCalled(idx)
    /\ idx' = idx + 1
    /\ UNCHANGED <<pc, exitStatus, task, outcome, results, terminate, failed,
                   pushed, lateCalls, pushedLate, metrics, records>>
    /\ UnchangedLog /\ UnchangedRun /\ UnchangedAux /\ UnchangedSeq /\ UnchangedMetrics

\* The late loop is exhausted: the command returns.
LateDone ==
    /\ pc = "late" /\ idx > n
    /\ Exit(0)
    /\ UNCHANGED <<task, outcome, results, terminate, failed, pushed,
                   lateCalls, pushedLate, idx, metrics, records>>
    /\ UnchangedLog /\ UnchangedRun /\ UnchangedAux /\ UnchangedSeq /\ UnchangedMetrics


\* ------------------------------------------------------------------------
\* images:rebase, images:update-dockerfile, images:foreach
\* ------------------------------------------------------------------------
SeqCmds == {"images:rebase", "images:update-dockerfile", "images:foreach",
            "images:revert"}

\* Mutant: images:rebase records the commit before the distgit is tagged.
StepsRecordBeforeTag(c) ==
    IF c = "images:rebase" THEN <<"rebase_dir", "commit", "add_record", "tag">>
    ELSE IF c = "images:update-dockerfile"
         THEN <<"update_distgit_dir", "commit", "tag">>
    ELSE IF c = "images:foreach"
         THEN (IF opts.message THEN <<"call", "commit">> ELSE <<"call">>)
    ELSE IF opts.message THEN <<"revert", "commit">>
    ELSE <<"revert">>

\* The per-target steps of the loop body of command c, in program order.
Steps(c) ==
    IF c = "images:rebase" THEN <<"rebase_dir", "commit", "tag", "add_record">>
    ELSE IF c = "images:update-dockerfile"
         THEN <<"update_distgit_dir", "commit", "tag">>
    ELSE IF c = "images:foreach"
         THEN (IF opts.message THEN <<"call", "commit">> ELSE <<"call">>)
    ELSE IF opts.message THEN <<"revert", "commit">>
    ELSE <<"revert">>

InitSeq ==
    /\ cmd \in SeqCmds
    /\ n \in 0..MaxTargets
    /\ late = [t \in Targets |-> FALSE]
    /\ opts \in [n_threads : {1}, hasRepo : {FALSE}, hasDest : {FALSE},
                 late_only : {FALSE}, push : BOOLEAN, message : BOOLEAN]
    /\ cmd \notin {"images:foreach", "images:revert"} => opts.message
    /\ version \in VersionStrings \cup {NoVersion, AutoVersion}
    /\ cmd \in {"images:foreach", "images:revert"} => version = NoVersion
    /\ count \in -1..MaxCount
    /\ cmd # "images:revert" => count = 1
    /\ watch_task_info = <<>>
    /\ InitNoRelease
    /\ InitCommon

UnchangedPool == UNCHANGED <<task, outcome, results, terminate, failed,
                             pushed, lateCalls, pushedLate, metrics>>

Crash ==
    /\ pc' = "crashed"
    /\ exitStatus' = 1

\* Each of these commands begins with runtime.remove_tmp_working_dir = push:
\* without a push the work is left in place.
\* version = runtime.auto_version(repo_type) returns a version
auto_version(v) ==
    /\ pc = "start" /\ cmd \in {"images:rebase", "images:update-dockerfile"}
    /\ version = AutoVersion
    /\ version' = v
    /\ UNCHANGED <<pc, exitStatus, idx, records, stage, cloned,
                   distgitsPushed, raisedAt>>
    /\ remove_tmp_working_dir' = opts.push /\ UNCHANGED fail_log
    /\ UnchangedRelease /\ UnchangedLog /\ UnchangedRun /\ UnchangedPool /\ UnchangedMetrics
    /\ UnchangedRecorder

\* runtime.auto_version(repo_type) raises
auto_version_raise ==
    /\ pc = "start" /\ cmd \in {"images:rebase", "images:update-dockerfile"}
    /\ version = AutoVersion
    /\ Crash
    /\ UNCHANGED <<version, idx, records, stage, cloned, distgitsPushed,
                   raisedAt>>
    /\ remove_tmp_working_dir' = opts.push /\ UNCHANGED fail_log
    /\ UnchangedRelease /\ UnchangedLog /\ UnchangedRun /\ UnchangedPool /\ UnchangedMetrics
    /\ UnchangedRecorder

\* The validation guard, then runtime.clone_distgits()
validate_and_clone ==
    /\ pc = "start" /\ cmd \in {"images:rebase", "images:update-dockerfile"}
    /\ version # AutoVersion
    /\ IF Validate(cmd, version) = "pass"
       THEN /\ cloned' = TRUE
            /\ pc' = "loop"
            /\ idx' = 1
            /\ UNCHANGED exitStatus
       ELSE /\ Crash
            /\ UNCHANGED <<cloned, idx>>
    /\ UNCHANGED <<version, records, stage, distgitsPushed, raisedAt>>
    /\ remove_tmp_working_dir' = opts.push /\ UNCHANGED fail_log
    /\ UnchangedRelease /\ UnchangedLog /\ UnchangedRun /\ UnchangedPool /\ UnchangedMetrics
    /\ UnchangedRecorder

\* images:foreach: runtime.initialize(clone_distgits=True)
images_foreach_start ==
    /\ pc = "start" /\ cmd = "images:foreach"
    /\ cloned' = TRUE
    /\ pc' = "loop"
    /\ idx' = 1
    /\ UNCHANGED <<exitStatus, version, records, stage, distgitsPushed,
                   raisedAt>>
    /\ remove_tmp_working_dir' = opts.push /\ UNCHANGED fail_log
    /\ UnchangedRelease /\ UnchangedLog /\ UnchangedRun /\ UnchangedPool /\ UnchangedMetrics
    /\ UnchangedRecorder

\* count = int(count) - 1; commit_range = "HEAD" when that is 0 and
\* "HEAD~%s..HEAD" % count otherwise, a negative count included: the
\* "Revert count must be >= 1" message is logged and the command goes on.
commit_range(c) ==
    IF c - 1 = 0 THEN <<"HEAD">>
    ELSE <<"HEAD~", c - 1, "..HEAD">>

\* Every distgit has a linear history of this many commits.
HistoryLen == MaxCount + 1

\* git revert --no-commit r on such a history: the number of commits it
\* reverts, HEAD alone for "HEAD" and the k commits after HEAD~k for
\* "HEAD~k..HEAD"; -1 when git rejects the range and returns non-zero.
GitRevert(r) ==
    IF r = <<"HEAD">> THEN 1
    ELSE IF r[2] < 0 \/ r[2] >= HistoryLen THEN -1
    ELSE r[2]

\* images:revert: runtime.initialize(), the range, runtime.clone_distgits()
images_revert_start ==
    /\ pc = "start" /\ cmd = "images:revert"
    /\ cloned' = TRUE
    /\ pc' = "loop"
    /\ idx' = 1
    /\ UNCHANGED <<exitStatus, version, records, stage, distgitsPushed,
                   raisedAt>>
    /\ remove_tmp_working_dir' = opts.push /\ UNCHANGED fail_log
    /\ UnchangedRelease /\ UnchangedLog /\ UnchangedRun /\ UnchangedPool
    /\ UnchangedMetrics /\ UnchangedRecorder

\* Is the next step of the current target the git revert?
AtRevert == cmd = "images:revert" /\ Steps(cmd)[stage[idx] + 1] = "revert"

\* The git revert run in the distgit of target t and its exit status
RevertRun(t, status) ==
    [distgit |-> t, commit_range |-> commit_range(count), status |-> status,
     reverted |-> IF status = 0 THEN GitRevert(commit_range(count)) ELSE 0]

\* sha returned by dgr.commit of target t
CommitSha(t) == 100 + t

\* The next step of the loop body on the current target returns normally.
LoopStep ==
    /\ pc = "loop" /\ idx <= n
    /\ AtRevert => GitRevert(commit_range(count)) >= 0
    /\ reverts' = IF AtRevert THEN Append(reverts, RevertRun(idx, 0))
                  ELSE reverts
    /\ LET k == stage[idx] + 1
       IN  /\ stage' = [stage EXCEPT ![idx] = k]
           /\ records' = IF Steps(cmd)[k] = "add_record"
                         THEN Append(records, [type |-> "distgit_commit",
                                               distgit |-> idx,
                                               sha |-> CommitSha(idx)])
                         ELSE records
           /\ idx' = IF k = Len(Steps(cmd)) THEN idx + 1 ELSE idx
    /\ UNCHANGED <<pc, exitStatus, version, cloned, distgitsPushed, raisedAt>>
    /\ UNCHANGED failure_log /\ UnchangedRun /\ UnchangedAux /\ UnchangedPool /\ UnchangedMetrics

\* Mutant: the exception is caught and the loop goes on with the next target.
LoopRaiseIsolated(t) ==
    /\ raisedAt' = t
    /\ idx' = t + 1
    /\ UNCHANGED <<pc, exitStatus>>

\* What an exception raised by a step of the loop body on target t does:
\* no handler encloses the loop, the command dies.
LoopRaise(t) ==
    /\ raisedAt' = t
    /\ Crash
    /\ UNCHANGED idx

\* The next step of the loop body on the current target raises
\* (rebase_dir, commit, tag; a non-zero status of the foreach command).
LoopStepRaise ==
    /\ pc = "loop" /\ idx <= n
    /\ Steps(cmd)[stage[idx] + 1] # "add_record"
    /\ LoopRaise(idx)
    /\ reverts' = IF AtRevert THEN Append(reverts, RevertRun(idx, 1))
                  ELSE reverts
    /\ UNCHANGED <<version, records, stage, cloned, distgitsPushed>>
    /\ UNCHANGED failure_log /\ UnchangedRun /\ UnchangedAux /\ UnchangedPool /\ UnchangedMetrics

\* After the loop: if push: runtime.push_distgits()
LoopDone ==
    /\ pc = "loop" /\ idx > n
    /\ distgitsPushed' = opts.push
    /\ Exit(0)
    /\ UNCHANGED <<version, idx, records, stage, cloned, raisedAt>>
    /\ UnchangedLog /\ UnchangedRun /\ UnchangedAux /\ UnchangedPool /\ UnchangedMetrics


\* ------------------------------------------------------------------------
\* BuildMetricsAggregator: print_build_metrics
\* ------------------------------------------------------------------------
\* A value of a taskinfo dict: a Number, some other object, or no such key.
Num(v)   == [kind |-> "num", val |-> v]
NotNum   == [kind |-> "str", val |-> 0]
NoKey    == [kind |-> "absent", val |-> 0]

\* koji.TASK_STATES, indexed from 0
TASK_STATES == <<"FREE", "OPEN", "CLOSED", "CANCELED", "ASSIGNED", "FAILED">>

TaskStateName(i) == TASK_STATES[i + 1]

Timestamps == {TsUnit * k : k \in 0..MaxTick}

\* Task infos of tasks that ran to completion: create <= start <= completion.
GoodTaskInfos ==
    {[has_id |-> TRUE, state |-> Num(2), create_ts |-> Num(c),
      start_ts |-> Num(s), completion_ts |-> Num(e)] :
        <<c, s, e>> \in {x \in Timestamps \X Timestamps \X Timestamps :
                            x[1] <= x[2] /\ x[2] <= x[3]}}

\* The same with one thing wrong: no id, not closed, no state, a timestamp
\* that is missing or not a number.
Defects(g) ==
    {[g EXCEPT !.has_id = FALSE],
     [g EXCEPT !.state = Num(5)],
     [g EXCEPT !.state = NoKey],
     [g EXCEPT !.create_ts = NoKey],
     [g EXCEPT !.start_ts = NoKey],
     [g EXCEPT !.completion_ts = NoKey],
     [g EXCEPT !.completion_ts = NotNum]}

\* The defective task infos span the whole range of timestamps, with some
\* wait and some build time, so that anything they contributed would show
\* in every aggregate.
DefectiveTaskInfos ==
    UNION {Defects(g) : g \in {h \in GoodTaskInfos :
                                  /\ h.create_ts.val = 0
                                  /\ h.start_ts.val = TsUnit
                                  /\ h.completion_ts.val = TsUnit * MaxTick}}

TaskInfos == GoodTaskInfos \cup DefectiveTaskInfos

\* _taskinfo_has_timestamp: isinstance(task_info.get(key_name, None), Number)
_taskinfo_has_timestamp(v) == v.kind = "num"

\* Evaluating the filter condition on info raises KeyError: 'id' is there,
\* so info['state'] is evaluated, and there is no such key.
FilterRaises(info) == info.has_id /\ info.state.kind = "absent"

\* Mutant: the state of the task is not looked at.
KeptAnyState(info) ==
    /\ info.has_id
    /\ info.state.kind = "num"
    /\ _taskinfo_has_timestamp(info.create_ts)
    /\ _taskinfo_has_timestamp(info.start_ts)
    /\ _taskinfo_has_timestamp(info.completion_ts)

\* The filter condition: the task info is kept.
Kept(info) ==
    /\ info.has_id
    /\ info.state.kind = "num"
    /\ TaskStateName(info.state.val) = "CLOSED"
    /\ _taskinfo_has_timestamp(info.create_ts)
    /\ _taskinfo_has_timestamp(info.start_ts)
    /\ _taskinfo_has_timestamp(info.completion_ts)

\* watch_task_info after the loop that deletes the discarded task infos
Retain(wti) == SelectSeq(wti, Kept)

\* The accumulators before the loop over the task infos; min_create_ts
\* starts at float('inf').
Acc0 == [inf |-> TRUE, min_create_ts |-> 0, max_completion_ts |-> 0,
         aggregate_build_secs |-> 0, aggregate_wait_secs |-> 0]

\* Mutant: the build time of a task is counted from its creation.
AccumulateFromCreate(acc, info) ==
    LET create_ts     == info.create_ts.val
        completion_ts == info.completion_ts.val
        start_ts      == info.start_ts.val
    IN  [inf |-> FALSE,
         min_create_ts |-> IF acc.inf THEN create_ts
                           ELSE Min(create_ts, acc.min_create_ts),
         max_completion_ts |-> IF completion_ts > acc.max_completion_ts
                               THEN completion_ts ELSE acc.max_completion_ts,
         aggregate_build_secs |-> acc.aggregate_build_secs
                                  + (completion_ts - create_ts),
         aggregate_wait_secs |-> acc.aggregate_wait_secs
                                 + (start_ts - create_ts)]

\* Mutant: min_create_ts is the create_ts of the task info seen last.
AccumulateLastCreate(acc, info) ==
    LET create_ts     == info.create_ts.val
        completion_ts == info.completion_ts.val
        start_ts      == info.start_ts.val
    IN  [inf |-> FALSE,
         min_create_ts |-> create_ts,
         max_completion_ts |-> IF completion_ts > acc.max_completion_ts
                               THEN completion_ts ELSE acc.max_completion_ts,
         aggregate_build_secs |-> acc.aggregate_build_secs
                                  + (completion_ts - start_ts),
         aggregate_wait_secs |-> acc.aggregate_wait_secs
                                 + (start_ts - create_ts)]

\* One iteration of the loop over the task infos
Accumulate(acc, info) ==
    LET create_ts     == info.create_ts.val
        completion_ts == info.completion_ts.val
        start_ts      == info.start_ts.val
    IN  [inf |-> FALSE,
         min_create_ts |-> IF acc.inf THEN create_ts
                           ELSE Min(create_ts, acc.min_create_ts),
         max_completion_ts |-> IF completion_ts > acc.max_completion_ts
                               THEN completion_ts ELSE acc.max_completion_ts,
         aggregate_build_secs |-> acc.aggregate_build_secs
                                  + (completion_ts - start_ts),
         aggregate_wait_secs |-> acc.aggregate_wait_secs
                                 + (start_ts - create_ts)]

RECURSIVE AccumulateAll(_, _)
AccumulateAll(acc, infos) ==
    IF infos = <<>> THEN acc
    ELSE AccumulateAll(Accumulate(acc, Head(infos)), Tail(infos))

\* Was some build created but not started at ts?
Waiting(infos, ts) ==
    \E i \in 1..Len(infos) :
        infos[i].create_ts.val <= ts /\ ts <= infos[i].start_ts.val

\* Mutant: the end of the range is visited too.
RECURSIVE xrangeInclusive(_, _)
xrangeInclusive(lo, hi) ==
    IF lo > hi THEN <<>> ELSE <<lo>> \o xrangeInclusive(lo + WalkStep, hi)

\* xrange(lo, hi, 60): lo, lo + 60, ... below hi
RECURSIVE xrange(_, _)
xrange(lo, hi) ==
    IF lo >= hi THEN <<>> ELSE <<lo>> \o xrange(lo + WalkStep, hi)

\* Mutant: every build waiting at ts counts, no break.
CountAtPerTask(infos, ts) ==
    Cardinality({i \in 1..Len(infos) :
        infos[i].create_ts.val <= ts /\ ts <= infos[i].start_ts.val})

\* The inner loop at ts: elapsed_wait_minutes += 1 and break at the first
\* build that was waiting.
CountAt(infos, ts) == IF Waiting(infos, ts) THEN 1 ELSE 0

\* for ts in tss: the inner loop; what elapsed_wait_minutes ends at
RECURSIVE Walk(_, _)
Walk(infos, tss) ==
    IF tss = <<>> THEN 0
    ELSE CountAt(infos, Head(tss)) + Walk(infos, Tail(tss))

\* Mutant: a started minute counts as a whole one.
IntMinutesRoundedUp(secs) == (secs + 59) \div 60

\* int(x / 60.0): truncation toward zero
IntMinutes(secs) == IF secs >= 0 THEN secs \div 60 ELSE -((-secs) \div 60)

\* Mutant: a record is added even when no task info was retained.
AddedRecordAlways(infos, wait, total) ==
    <<[type |-> "image_build_metrics",
       elapsed_wait_minutes |-> wait,
       elapsed_total_minutes |-> total,
       task_count |-> Len(infos)]>>

\* if watch_task_info: ... runtime.add_record("image_build_metrics", ...)
\* else: only a log line.  The records the call adds.
AddedRecord(infos, wait, total) ==
    IF infos # <<>>
    THEN <<[type |-> "image_build_metrics",
            elapsed_wait_minutes |-> wait,
            elapsed_total_minutes |-> total,
            task_count |-> Len(infos)]>>
    ELSE <<>>

\* print_build_metrics on the copy wti of the watched task infos: whether it
\* raised, what it logged, the timestamps its minute walk went through and
\* the record it added with runtime.add_record.
print_build_metrics(wti) ==
    IF \E i \in 1..Len(wti) : FilterRaises(wti[i])
    THEN [raised |-> TRUE, kept |-> <<>>, aggregate_build_secs |-> 0,
          aggregate_wait_secs |-> 0, elapsed_wait_minutes |-> 0,
          elapsed_total_minutes |-> 0, task_count |-> 0, walked |-> <<>>,
          added |-> <<>>]
    ELSE LET infos == Retain(wti)
             acc   == AccumulateAll(Acc0, infos)
             tss   == IF infos # <<>>
                      THEN xrange(acc.min_create_ts, acc.max_completion_ts)
                      ELSE <<>>
             wait  == Walk(infos, tss)
             total == IF infos # <<>>
                      THEN IntMinutes(acc.max_completion_ts - acc.min_create_ts)
                      ELSE 0
         IN  [raised |-> FALSE, kept |-> infos,
              aggregate_build_secs |-> acc.aggregate_build_secs,
              aggregate_wait_secs |-> acc.aggregate_wait_secs,
              elapsed_wait_minutes |-> wait,
              elapsed_total_minutes |-> total,
              task_count |-> Len(infos),
              walked |-> tss,
              added |-> AddedRecord(infos, wait, total)]

\* The watched task infos an images:build run may end up with.
SampleGood == [has_id |-> TRUE, state |-> Num(2), create_ts |-> Num(0),
               start_ts |-> Num(TsUnit), completion_ts |-> Num(TsUnit)]

SampleTaskInfos ==
    {<<>>, <<SampleGood>>, <<[SampleGood EXCEPT !.state = Num(5)]>>,
     <<SampleGood, [SampleGood EXCEPT !.state = NoKey]>>}

\* Mutant: an exception of the metrics step kills the command.
AfterMetricsPropagates(raised) == IF raised THEN "crashed" ELSE "check"

\* Where images:build goes after the metrics step: the bare except
\* swallows an exception of print_build_metrics and the command goes on.
AfterMetrics(raised) == "check"

\* try: print_build_metrics(runtime) except: log
Metrics ==
    /\ pc = "metrics"
    /\ \E wti \in SampleTaskInfos :
          LET m == print_build_metrics(wti)
          IN  /\ metrics' = IF m.raised THEN "raised" ELSE "returned"
              /\ records' = records \o m.added
              /\ pc' = AfterMetrics(m.raised)
              /\ exitStatus' = IF pc' = "crashed" THEN 1 ELSE exitStatus
    /\ UNCHANGED <<task, outcome, results, terminate, failed, pushed,
                   lateCalls, pushedLate, idx>>
    /\ UnchangedLog /\ UnchangedRun /\ UnchangedAux /\ UnchangedSeq /\ UnchangedMetrics

\* ------------------------------------------------------------------------
\* images:verify
\* ------------------------------------------------------------------------
VerifyStatuses == {"passed", "failed"}

InitVerify ==
    /\ cmd = "images:verify"
    /\ n \in 0..MaxTargets
    /\ late = [t \in Targets |-> FALSE]
    /\ opts = NoOpts
    /\ count = 1
    /\ version = NoVersion
    /\ watch_task_info = <<>>
    /\ InitNoRelease
    /\ InitCommon

\* pool = ThreadPool(cpu_count()); results = pool.map(verify_image, images)
images_verify_start ==
    /\ pc = "start" /\ cmd = "images:verify"
    /\ pc' = "map"
    /\ results' = [t \in 1..n |-> "unset"]
    /\ UNCHANGED <<exitStatus, task, outcome, terminate, failed, pushed,
                   lateCalls, pushedLate, idx, metrics, records>>
    /\ UnchangedLog /\ UnchangedRun /\ UnchangedSeq /\ UnchangedMetrics /\ UnchangedVerify
    /\ UnchangedRelease /\ UnchangedRecorder

\* A thread of the pool verifies image t; pool.map puts the result at the
\* position of the image.
verify_image(t, st) ==
    /\ pc = "map"
    /\ task[t] = "pending"
    /\ task' = [task EXCEPT ![t] = "done"]
    /\ outcome' = [outcome EXCEPT ![t] = st]
    /\ results' = [results EXCEPT ![t] = st]
    /\ UNCHANGED <<pc, exitStatus, terminate, failed, pushed, lateCalls,
                   pushedLate, idx, metrics, records>>
    /\ UnchangedLog /\ UnchangedRun /\ UnchangedSeq /\ UnchangedMetrics /\ UnchangedVerify
    /\ UnchangedRelease /\ UnchangedRecorder

\* failed_images = [img for img in results if img['status'] == 'failed'],
\* as the positions of those images
RECURSIVE FailedImagesFrom(_, _)
FailedImagesFrom(res, t) ==
    IF t > Len(res) THEN <<>>
    ELSE (IF res[t] = "failed" THEN <<t>> ELSE <<>>)
         \o FailedImagesFrom(res, t + 1)

FailedImages(res) == FailedImagesFrom(res, 1)

\* Mutant: the status only tells whether some image failed.
VerifyExitStatusFlag(failed_images_count) ==
    IF failed_images_count > 0 THEN 1 ELSE 0

\* exit(failed_images_count)
VerifyExitStatus(failed_images_count) == failed_images_count

\* After pool.join(): the accounting, the fail log and the exit.
images_verify_account ==
    /\ pc = "map" /\ cmd = "images:verify"
    /\ \A t \in Items : task[t] = "done"
    /\ LET failed_images       == FailedImages(results)
           failed_images_count == Len(failed_images)
       IN  /\ failed' = failed_images
           /\ IF failed_images_count > 0
              THEN /\ remove_tmp_working_dir' = FALSE
                   /\ fail_log' = [written |-> TRUE, data |-> failed_images]
              ELSE UNCHANGED <<remove_tmp_working_dir, fail_log>>
           /\ Exit(VerifyExitStatus(failed_images_count))
    /\ UNCHANGED <<task, outcome, results, terminate, pushed, lateCalls,
                   pushedLate, idx, metrics, records>>
    /\ UnchangedLog /\ UnchangedRun /\ UnchangedSeq /\ UnchangedMetrics /\ UnchangedRelease
    /\ UnchangedRecorder

\* ------------------------------------------------------------------------
\* The commands
\* ------------------------------------------------------------------------
Init == InitBuild \/ InitSeq \/ InitVerify

Next ==
    \/ rpms_build_start
    \/ images_build_start
    \/ images_push_start
    \/ \E t \in Items : StartTask(t)
    \/ \E t \in Items, o \in Outcomes : FinishTask(t, o)
    \/ Cancel
    \/ Gather
    \/ Metrics
    \/ CheckFailed
    \/ \E ok \in BOOLEAN : LatePush(ok)
    \/ LatePushRaise
    \/ LateSkip
    \/ LateDone
    \/ \E v \in VersionStrings : auto_version(v)
    \/ auto_version_raise
    \/ validate_and_clone
    \/ images_foreach_start
    \/ images_revert_start
    \/ LoopStep
    \/ LoopStepRaise
    \/ LoopDone
    \/ images_verify_start
    \/ \E t \in Items, st \in VerifyStatuses : verify_image(t, st)
    \/ images_verify_account

Spec == Init /\ [][Next]_vars

\* ------------------------------------------------------------------------
\* print_build_metrics on its own, over all bounded inputs
\* ------------------------------------------------------------------------
TaskInfoSeqs == UNION {[1..m -> TaskInfos] : m \in 0..MaxTasks}

\* A closed task info with its three timestamps
ClosedTask(c, s, e) ==
    [has_id |-> TRUE, state |-> Num(2), create_ts |-> Num(c),
     start_ts |-> Num(s), completion_ts |-> Num(e)]

\* Three builds, the first two overlapping, the third one waiting 10 s.
ExampleTaskInfos ==
    <<ClosedTask(0, 0, 10), ClosedTask(5, 5, 15), ClosedTask(100, 110, 120)>>

InitMetrics ==
    /\ cmd = "print_build_metrics"
    /\ n = 0
    /\ late = [t \in Targets |-> FALSE]
    /\ opts = NoOpts
    /\ count = 1
    /\ version = NoVersion
    /\ watch_task_info \in TaskInfoSeqs \cup {ExampleTaskInfos}
    /\ InitNoRelease
    /\ InitCommon

\* The watched task infos after a call that ended with the dict local:
\* get_watch_task_info_copy() gave the call a copy, the deletions were
\* made in the copy.
WatchedAfter(watched, local) == watched

RunMetrics ==
    /\ pc = "start" /\ cmd = "print_build_metrics"
    /\ summary' = print_build_metrics(watch_task_info)
    /\ watch_task_info' = WatchedAfter(watch_task_info, summary'.kept)
    /\ metrics' = IF summary'.raised THEN "raised" ELSE "returned"
    /\ records' = records \o summary'.added
    /\ pc' = "done"
    /\ UNCHANGED <<exitStatus, task, outcome, results, terminate, failed,
                   pushed, lateCalls, pushedLate, idx, summary2>>
    /\ UnchangedLog /\ UnchangedRun /\ UnchangedAux /\ UnchangedSeq

\* The orders in which a dict holding the task infos of wti may be iterated.
IterationOrders(wti) ==
    {[i \in 1..Len(wti) |-> wti[p[i]]] :
        p \in {q \in [1..Len(wti) -> 1..Len(wti)] :
                  \A i, j \in 1..Len(wti) : q[i] = q[j] => i = j}}

\* A second call of print_build_metrics: a new copy of the watched task
\* infos, iterated in some order.
RunMetricsAgain ==
    /\ pc = "done" /\ cmd = "print_build_metrics"
    /\ \E wti \in IterationOrders(watch_task_info) :
          /\ summary2' = print_build_metrics(wti)
          /\ watch_task_info' = WatchedAfter(watch_task_info, summary2'.kept)
    /\ records' = records \o summary2'.added
    /\ pc' = "again"
    /\ UNCHANGED <<exitStatus, task, outcome, results, terminate, failed,
                   pushed, lateCalls, pushedLate, idx, metrics, summary>>
    /\ UnchangedLog /\ UnchangedRun /\ UnchangedAux /\ UnchangedSeq

NextMetrics == RunMetrics \/ RunMetricsAgain

SpecMetrics == InitMetrics /\ [][NextMetrics]_vars

\* ------------------------------------------------------------------------
\* update_distgit_dir(version, release): the release it resolves
\* ------------------------------------------------------------------------
Digits == <<"0", "1", "2", "3", "4", "5", "6", "7", "8", "9">>

IsDigit(c) == \E d \in 1..10 : Digits[d] = c

DigitValue(c) == (CHOOSE d \in 1..10 : Digits[d] = c) - 1

IsNumeric(s) == s # <<>> /\ \A i \in 1..Len(s) : IsDigit(s[i])

\* int(s)
RECURSIVE ParseInt(_)
ParseInt(s) ==
    IF s = <<>> THEN 0
    ELSE 10 * ParseInt(SubSeq(s, 1, Len(s) - 1)) + DigitValue(s[Len(s)])

\* str(k)
RECURSIVE FormatInt(_)
FormatInt(k) ==
    IF k < 10 THEN <<Digits[k + 1]>>
    ELSE FormatInt(k \div 10) \o <<Digits[(k % 10) + 1]>>

Plus == <<"+">>

\* Mutant: "+" is set like any other value.
resolveReleaseLiteralPlus(current, requested) ==
    IF requested \in {NoRelease, <<>>} THEN <<>>
    ELSE requested

\* The release of the target after the update: "+" bumps the current
\* release, starting at 1 when there is none; no release given removes the
\* label; anything else is set as it is.
resolveRelease(current, requested) ==
    IF requested = Plus
    THEN IF IsNumeric(current) THEN FormatInt(ParseInt(current) + 1)
         ELSE <<"1">>
    ELSE IF requested \in {NoRelease, <<>>} THEN <<>>
    ELSE requested

CurrentChars == {"0", "5", "9"}
RequestChars == {"5", "9", "+"}

CurrentReleases ==
    {NoRelease} \cup UNION {[1..m -> CurrentChars] : m \in 1..MaxRelLen}

RequestedReleases ==
    {NoRelease} \cup UNION {[1..m -> RequestChars] : m \in 0..MaxRelLen}

InitRelease ==
    /\ cmd = "update_distgit_dir"
    /\ n = 0
    /\ late = [t \in Targets |-> FALSE]
    /\ opts = NoOpts
    /\ count = 1
    /\ version = NoVersion
    /\ watch_task_info = <<>>
    /\ release \in RequestedReleases
    /\ current_release \in CurrentReleases
    /\ real_release = NoRelease
    /\ InitCommon

\* (real_version, real_release) = dgr.update_distgit_dir(version, release)
update_distgit_dir ==
    /\ pc = "start" /\ cmd = "update_distgit_dir"
    /\ real_release' = resolveRelease(current_release, release)
    /\ pc' = "done"
    /\ UNCHANGED <<exitStatus, idx, records, release, current_release>>
    /\ UnchangedLog /\ UnchangedRun /\ UnchangedSeq /\ UnchangedPool /\ UnchangedMetrics
    /\ UnchangedVerify /\ UnchangedRecorder

NextRelease == update_distgit_dir

SpecRelease == InitRelease /\ [][NextRelease]_vars

\* ------------------------------------------------------------------------
\* runtime.add_record called by the workers of a wave
\* ------------------------------------------------------------------------
RecordTypes == {"distgit_commit", "image_build_metrics"}

InitRecorder ==
    /\ cmd = "add_record"
    /\ n \in 1..MaxTargets
    /\ late = [t \in Targets |-> FALSE]
    /\ opts = NoOpts
    /\ count = 1
    /\ version = NoVersion
    /\ watch_task_info = <<>>
    /\ InitNoRelease
    /\ InitCommon

\* Mutant: a caller never waits for the lock.
CanAcquireAlways(w) == TRUE

\* The log is written by one caller at a time: a caller waits until the
\* lock of the log is free.
CanAcquire(w) == log_lock = 0

\* Worker w calls add_record(ty, ...) and gets the lock of the log.
AcquireLog(w, ty) ==
    /\ cmd = "add_record"
    /\ writer[w].pc = "idle"
    /\ CanAcquire(w)
    /\ log_lock' = w
    /\ writer' = [writer EXCEPT ![w] = [pc |-> "locked", type |-> ty,
                                        seen |-> <<>>]]
    /\ UNCHANGED <<pc, exitStatus, idx, records>>
    /\ UnchangedLog /\ UnchangedRun /\ UnchangedSeq /\ UnchangedPool /\ UnchangedMetrics
    /\ UnchangedVerify /\ UnchangedRelease

\* Worker w takes the log as it stands.
ReadLog(w) ==
    /\ cmd = "add_record"
    /\ writer[w].pc = "locked"
    /\ writer' = [writer EXCEPT ![w].pc = "read", ![w].seen = records]
    /\ UNCHANGED <<pc, exitStatus, idx, records, log_lock>>
    /\ UnchangedLog /\ UnchangedRun /\ UnchangedSeq /\ UnchangedPool /\ UnchangedMetrics
    /\ UnchangedVerify /\ UnchangedRelease

\* Worker w stores the log with its record at the end and frees the lock.
WriteLog(w) ==
    /\ cmd = "add_record"
    /\ writer[w].pc = "read"
    /\ records' = Append(writer[w].seen,
                         [type |-> writer[w].type, distgit |-> w,
                          sha |-> CommitSha(w)])
    /\ writer' = [writer EXCEPT ![w].pc = "done"]
    /\ log_lock' = IF log_lock = w THEN 0 ELSE log_lock
    /\ UNCHANGED <<pc, exitStatus, idx>>
    /\ UnchangedLog /\ UnchangedRun /\ UnchangedSeq /\ UnchangedPool /\ UnchangedMetrics
    /\ UnchangedVerify /\ UnchangedRelease

NextRecorder ==
    \/ \E w \in Items, ty \in RecordTypes : AcquireLog(w, ty)
    \/ \E w \in Items : ReadLog(w)
    \/ \E w \in Items : WriteLog(w)

SpecRecorder == InitRecorder /\ [][NextRecorder]_vars

\* ========================================================================
\* Properties
\* ========================================================================
\* The targets whose operation did not succeed in the wave.
FailedTargets == {t \in Items : outcome[t] \in {"fail", "raise"}}

\* The wave of a build-like command was entered and has been gathered.
WaveGathered ==
    /\ cmd \in BuildCmds
    /\ pc \notin {"start", "exec"}
    /\ Len(results) = n /\ n > 0

\* The elements of a sequence
Range(f) == {f[i] : i \in 1..Len(f)}

\* The failure check of a build-like command has been made.
Checked == WaveGathered /\ pc \notin {"metrics", "check"}

\* C1: once the wave is gathered there are exactly n results, result t is
\* the outcome of target t whatever the completion order and whether or not
\* the cancellation flag was set, and the failed list made from
\* zip(metas, results) names exactly the targets that did not succeed.
C1_ResultsMatchTargets ==
    /\ (cmd \in BuildCmds /\ pc = "exec") =>
          /\ Len(results) = n
          /\ \A t \in Items :
                task[t] = "done" =>
                    (results[t] = "True" <=> outcome[t] = "ok")
    /\ WaveGathered =>
          /\ Len(results) = n
          /\ \A t \in Items : outcome[t] # "none"
          /\ \A t \in Items : results[t] = "True" <=> outcome[t] = "ok"
          /\ \A t \in Items : results[t] = "False" <=> outcome[t] # "ok"
    /\ Checked =>
          Range(failed) = {distgit_key(t) : t \in FailedTargets}

C1_Witness ==
    /\ Checked /\ n >= 2 /\ terminate
    /\ outcome[1] = "fail" /\ outcome[2] = "ok"
    /\ task[1] = "done" /\ task[2] = "done"

\* C2: when the operation raises for target T, the wave still ends with
\* every target's operation run, T's result is a failure, every other
\* result is the true outcome of its target, and the command reaches its
\* failure check instead of dying in the pool.
C2_FaultIsolation ==
    \A T \in Items :
        (cmd \in BuildCmds /\ outcome[T] = "raise") =>
            /\ results[T] = "False"
            /\ pc # "exec" =>
                  /\ \A u \in Items \ {T} :
                        /\ task[u] = "done"
                        /\ outcome[u] # "none"
                        /\ results[u] = "True" <=> outcome[u] = "ok"
                  /\ pc \in {"metrics", "check", "done"}
                  /\ Checked => distgit_key(T) \in Range(failed)

C2_Witness ==
    /\ Checked /\ n >= 3
    /\ outcome[2] = "raise" /\ outcome[1] = "ok" /\ outcome[3] = "fail"
    /\ results = <<"True", "False", "False">>

\* C3 as claimed: a build-like command that ran its wave exits with the
\* number of failed targets as its status (0 when none failed).
C3_ExitStatusIsFailureCount ==
    (WaveGathered /\ pc = "done") => exitStatus = Cardinality(FailedTargets)

\* C3 amended: a build-like command that ran its wave and exits does so with
\* status 1 when one or more targets failed, however many, and with status
\* 0 when none failed; with a failed target it always gets to that exit.
C3_ExitStatusIsOneOnFailure ==
    /\ (WaveGathered /\ pc = "done") =>
          exitStatus = (IF FailedTargets = {} THEN 0 ELSE 1)
    /\ (Checked /\ FailedTargets # {}) => (pc = "done" /\ exitStatus = 1)

C3_Witness ==
    /\ WaveGathered /\ pc = "done"
    /\ Cardinality(FailedTargets) >= 2
    /\ exitStatus = 1

\* C4 as claimed: when a step of one target fails in a sequential flow,
\* every other selected target is still driven through all of its steps.
C4_OthersStillDriven ==
    (cmd \in SeqCmds /\ raisedAt # 0 /\ Exited) =>
        \A u \in Items \ {raisedAt} : stage[u] = Len(Steps(cmd))

\* C4 amended: in images:rebase, images:update-dockerfile and
\* images:foreach the failure of a step of one target ends the run at once:
\* the targets before it went through all their steps, the failing target
\* stops at the failed step, no later target is touched, and nothing is
\* pushed.
C4_FailureStopsTheRun ==
    (cmd \in SeqCmds /\ raisedAt # 0) =>
        /\ pc = "crashed" /\ exitStatus = 1
        /\ \A u \in Items : u < raisedAt => stage[u] = Len(Steps(cmd))
        /\ stage[raisedAt] < Len(Steps(cmd))
        /\ \A u \in Items : u > raisedAt => stage[u] = 0
        /\ ~distgitsPushed

C4_Witness ==
    /\ cmd = "images:rebase" /\ n >= 3 /\ raisedAt = 2
    /\ stage[1] = 4 /\ stage[2] = 1 /\ stage[3] = 0
    /\ opts.push

\* C5 as claimed: when some target failed and pushes were asked for, every
\* target that did not fail has been pushed by the time the command exits,
\* late targets included.
C5_AllNonFailedPushed ==
    (cmd \in {"images:build", "images:push"} /\ opts.hasDest /\ Exited
     /\ FailedTargets # {}) =>
        \A t \in Items \ FailedTargets : t \in pushed \cup pushedLate

\* C5 amended: when some target failed in the wave of images:build (with
\* push destinations) or images:push, every target that did not fail and
\* is not late has been pushed by the wave when the command exits, and no
\* late target has been pushed.
C5_NonLatePushedLateHeldBack ==
    (cmd \in {"images:build", "images:push"} /\ opts.hasDest /\ Exited
     /\ FailedTargets # {}) =>
        /\ \A t \in Items \ FailedTargets : ~late[t] => t \in pushed
        /\ \A t \in Items : late[t] => t \notin pushed \cup pushedLate

C5_Witness ==
    /\ cmd = "images:build" /\ opts.hasDest /\ pc = "done" /\ n >= 3
    /\ outcome[1] = "fail" /\ outcome[2] = "ok" /\ outcome[3] = "ok"
    /\ ~late[2] /\ late[3]
    /\ pushed = {2} /\ pushedLate = {}

\* C6: in images:push without --late-only, whenever push_image has been
\* called with push_late=True the main wave has a gathered result for every
\* selected target.
C6_LateAfterWave ==
    (cmd = "images:push" /\ ~opts.late_only /\ lateCalls # {}) =>
        /\ pc # "exec"
        /\ Len(results) = n
        /\ \A t \in Items : task[t] = "done" /\ results[t] # "unset"

C6_Witness ==
    /\ cmd = "images:push" /\ ~opts.late_only
    /\ n >= 2 /\ late[2] /\ ~late[1]
    /\ 2 \in pushedLate /\ pushed = {1}

\* C7: in images:build and in images:push without --late-only, once a
\* target of the wave has failed no push_image(push_late=True) call is made.
C7_NoLatePushAfterFailure ==
    (cmd \in {"images:build", "images:push"} /\ ~opts.late_only
     /\ FailedTargets # {}) =>
        lateCalls = {} /\ pushedLate = {}

C7_Witness ==
    /\ cmd = "images:push" /\ ~opts.late_only /\ pc = "done"
    /\ n >= 2 /\ late[1] /\ outcome[1] = "ok" /\ outcome[2] = "raise"
    /\ lateCalls = {}

\* Nothing of the distgit flow has happened.
NothingMutated ==
    /\ ~cloned
    /\ \A t \in Targets : stage[t] = 0
    /\ records = <<>>
    /\ ~distgitsPushed

\* The version has been resolved and the validation guard has been passed.
PastValidation ==
    /\ cmd \in {"images:rebase", "images:update-dockerfile"}
    /\ pc # "start"
    /\ version # AutoVersion

\* C8 as claimed: in images:rebase and images:update-dockerfile a version
\* string that does not validate ends the run before clone_distgits.
C8_InvalidVersionAborts ==
    (PastValidation /\ version \in VersionStrings /\ ~valid_version(version))
        => (pc = "crashed" /\ NothingMutated)

\* C8 amended: a version that does not validate ends the run before
\* clone_distgits, with nothing rebased, committed, tagged, recorded or
\* pushed, in images:rebase always and in images:update-dockerfile when the
\* version is a non-empty string; images:update-dockerfile does not
\* validate an empty version and goes on.
C8_InvalidNonEmptyVersionAborts ==
    /\ (PastValidation /\ ~valid_version(version)
        /\ (cmd = "images:rebase" \/ (version # NoVersion /\ Len(version) > 0)))
            => (pc = "crashed" /\ exitStatus = 1 /\ NothingMutated)
    /\ (PastValidation /\ cmd = "images:update-dockerfile" /\ version = <<>>)
            => cloned

C8_Witness ==
    /\ cmd = "images:update-dockerfile" /\ pc = "crashed"
    /\ version = <<"1", ".", "x">>
    /\ n >= 1 /\ opts.push /\ NothingMutated

\* C9: in images:build, whether print_build_metrics raised or returned, the
\* command goes on to the failure check: the failed list names exactly the
\* targets that did not succeed, the command exits 1 without late pushes
\* when there is one, and otherwise runs the late pass over every image.
C9_MetricsNeverAbort ==
    (cmd = "images:build" /\ metrics # "none") =>
        /\ pc # "metrics"
        /\ pc = "crashed" => (FailedTargets = {} /\ idx \in lateCalls)
        /\ pc # "check" =>
              /\ Range(failed) = {distgit_key(t) : t \in FailedTargets}
              /\ Len(failed) = Cardinality(FailedTargets)
              /\ FailedTargets # {} =>
                    (pc = "done" /\ exitStatus = 1 /\ lateCalls = {})
              /\ FailedTargets = {} =>
                    /\ pc \in {"late", "done", "crashed"}
                    /\ pc = "done" => (exitStatus = 0 /\ lateCalls = Items)

C9_Witness ==
    /\ cmd = "images:build" /\ metrics = "raised" /\ pc = "done"
    /\ exitStatus = 0 /\ n >= 2 /\ lateCalls = Items /\ late[2]
    /\ 2 \in pushedLate

\* The retention condition in the words of the claim.
ClosedWithTimestamps(info) ==
    /\ info.state.kind = "num" /\ info.state.val = 2
    /\ info.create_ts.kind = "num"
    /\ info.start_ts.kind = "num"
    /\ info.completion_ts.kind = "num"

RECURSIVE SumOver(_, _, _)
SumOver(S, wti, field) ==
    IF S = {} THEN 0
    ELSE LET i == CHOOSE j \in S : TRUE
         IN  (IF field = "build"
              THEN wti[i].completion_ts.val - wti[i].start_ts.val
              ELSE wti[i].start_ts.val - wti[i].create_ts.val)
             + SumOver(S \ {i}, wti, field)

\* C10: every task info the aggregator retains is CLOSED with numeric
\* create, start and completion timestamps, and all it computes (both sums,
\* the elapsed total between the earliest create and the latest completion,
\* the wasted-wait minutes and the task count) is what the retained task
\* infos alone give: the discarded ones contribute nothing.  (A task info
\* with an id and no state makes the aggregator raise: then nothing at all
\* is recorded.)
C10_OnlyClosedComplete ==
    /\ (cmd = "print_build_metrics" /\ pc = "done" /\ metrics = "raised") =>
          records = <<>>
    /\ (cmd = "print_build_metrics" /\ pc = "done" /\ metrics = "returned") =>
        LET wti == watch_task_info
            R   == {i \in 1..Len(wti) :
                        wti[i].has_id /\ ClosedWithTimestamps(wti[i])}
            lo  == CHOOSE c \in {wti[i].create_ts.val : i \in R} :
                       \A i \in R : c <= wti[i].create_ts.val
            hi  == CHOOSE c \in {wti[i].completion_ts.val : i \in R} :
                       \A i \in R : c >= wti[i].completion_ts.val
        IN  /\ \A k \in 1..Len(summary.kept) :
                  ClosedWithTimestamps(summary.kept[k])
            /\ \A i \in 1..Len(wti) :
                  ~ClosedWithTimestamps(wti[i]) => wti[i] \notin Range(summary.kept)
            /\ summary.task_count = Cardinality(R)
            /\ summary.aggregate_build_secs = SumOver(R, wti, "build")
            /\ summary.aggregate_wait_secs = SumOver(R, wti, "wait")
            /\ R # {} =>
                  /\ summary.elapsed_total_minutes = (hi - lo) \div 60
                  /\ summary.elapsed_wait_minutes =
                        Cardinality({ts \in lo..(hi - 1) :
                            /\ (ts - lo) % 60 = 0
                            /\ \E i \in R : /\ wti[i].create_ts.val <= ts
                                            /\ ts <= wti[i].start_ts.val})
            /\ R = {} =>
                  /\ summary.elapsed_total_minutes = 0
                  /\ summary.elapsed_wait_minutes = 0
                  /\ summary.added = <<>>

C10_Witness ==
    /\ cmd = "print_build_metrics" /\ pc = "done" /\ ~summary.raised
    /\ Len(watch_task_info) = 2
    /\ watch_task_info[1].state.val = 5
    /\ watch_task_info[1].completion_ts = Num(MaxTick * TsUnit)
    /\ watch_task_info[1].start_ts = Num(TsUnit)
    /\ watch_task_info[2].has_id
    /\ ClosedWithTimestamps(watch_task_info[2])
    /\ watch_task_info[2].start_ts = Num(0)
    /\ watch_task_info[2].completion_ts = Num(TsUnit)
    /\ summary.task_count = 1
    /\ summary.aggregate_build_secs = TsUnit

\* Every task info of the input fails the retention condition.
AllDiscarded ==
    \A i \in 1..Len(watch_task_info) :
        ~(watch_task_info[i].has_id /\ ClosedWithTimestamps(watch_task_info[i]))

\* Some task info of the input has an id and no state.
SomeIdWithoutState ==
    \E i \in 1..Len(watch_task_info) :
        /\ watch_task_info[i].has_id
        /\ watch_task_info[i].state.kind = "absent"

MetricsRan == cmd = "print_build_metrics" /\ pc = "done"

\* C11 as claimed: when the input is empty or none of its task infos can be
\* retained, the aggregator finishes without raising and emits one summary
\* record whose values are all zero.
C11_AllDiscardedEmitsZeroSummary ==
    (MetricsRan /\ AllDiscarded) =>
        /\ metrics = "returned"
        /\ Len(records) = 1
        /\ records[1].elapsed_wait_minutes = 0
        /\ records[1].elapsed_total_minutes = 0
        /\ records[1].task_count = 0

\* C11 amended: when the input is empty or every task info is discarded
\* (a missing or non-numeric completion timestamp included), the aggregator
\* returns without raising, everything it computed is zero, and it adds no
\* record at all; a task info with an id and no state makes it raise
\* instead, and then too nothing is recorded.
C11_AllDiscardedEmitsNothing ==
    (MetricsRan /\ AllDiscarded) =>
        /\ metrics = "raised" <=> SomeIdWithoutState
        /\ records = <<>>
        /\ summary.added = <<>>
        /\ summary.task_count = 0
        /\ summary.aggregate_build_secs = 0
        /\ summary.aggregate_wait_secs = 0
        /\ summary.elapsed_wait_minutes = 0
        /\ summary.elapsed_total_minutes = 0

C11_Witness ==
    /\ MetricsRan /\ AllDiscarded /\ metrics = "returned"
    /\ Len(watch_task_info) = 2
    /\ watch_task_info[1].has_id /\ watch_task_info[2].has_id
    /\ watch_task_info[1].completion_ts.kind = "absent"
    /\ watch_task_info[2].completion_ts.kind = "str"
    /\ records = <<>>

\* The input task infos the retention condition keeps, by position.
RetainedIdx ==
    {i \in 1..Len(watch_task_info) :
        watch_task_info[i].has_id /\ ClosedWithTimestamps(watch_task_info[i])}

\* C12: the aggregate build seconds are the sum over the retained task
\* infos of completion - start and the aggregate wait seconds the sum of
\* start - create, each task counted in full even when tasks overlap; for
\* the builds (0,0,10), (5,5,15), (100,110,120) they are 30 and 10.
C12_AggregateSums ==
    (MetricsRan /\ metrics = "returned") =>
        /\ summary.aggregate_build_secs =
              SumOver(RetainedIdx, watch_task_info, "build")
        /\ summary.aggregate_wait_secs =
              SumOver(RetainedIdx, watch_task_info, "wait")
        /\ watch_task_info = ExampleTaskInfos =>
              /\ summary.aggregate_build_secs = 30
              /\ summary.aggregate_wait_secs = 10

C12_Witness ==
    /\ MetricsRan /\ metrics = "returned"
    /\ watch_task_info = ExampleTaskInfos
    /\ summary.task_count = 3
    /\ summary.aggregate_build_secs = 30
    /\ summary.aggregate_wait_secs = 10

\* The earliest create and the latest completion of the retained task infos
MinCreate ==
    CHOOSE c \in {watch_task_info[i].create_ts.val : i \in RetainedIdx} :
        \A i \in RetainedIdx : c <= watch_task_info[i].create_ts.val

MaxCompletion ==
    CHOOSE c \in {watch_task_info[i].completion_ts.val : i \in RetainedIdx} :
        \A i \in RetainedIdx : c >= watch_task_info[i].completion_ts.val

\* The retained task infos that were created and not yet started at ts,
\* both ends included.
WaitingAt(ts) ==
    {i \in RetainedIdx : /\ watch_task_info[i].create_ts.val <= ts
                         /\ ts <= watch_task_info[i].start_ts.val}

MetricsWalked == MetricsRan /\ metrics = "returned" /\ RetainedIdx # {}

\* C13: the wasted-wait minutes are the number of timestamps of the walk
\* at which one or more retained task infos have create <= t <= start; a
\* timestamp with several waiting builds counts once, and the count never
\* exceeds the number of timestamps walked.
C13_WaitMinutesDeduplicated ==
    MetricsWalked =>
        /\ summary.elapsed_wait_minutes =
              Cardinality({k \in 1..Len(summary.walked) :
                              WaitingAt(summary.walked[k]) # {}})
        /\ summary.elapsed_wait_minutes <= Len(summary.walked)

C13_Witness ==
    /\ MetricsWalked
    /\ Len(summary.walked) = 2
    /\ Cardinality(WaitingAt(summary.walked[1])) = 2
    /\ Cardinality(WaitingAt(summary.walked[2])) = 1
    /\ summary.elapsed_wait_minutes = 2

\* C14 as claimed: the walk visits every timestamp minCreate + 60*k from
\* minCreate up to and including maxCompletion.
C14_WalkIncludesMaxCompletion ==
    MetricsWalked =>
        Range(summary.walked) =
            {ts \in MinCreate..MaxCompletion : (ts - MinCreate) % 60 = 0}

\* C14 amended: the walk visits, in ascending order and once each, exactly
\* the timestamps minCreate + 60*k that are strictly below maxCompletion;
\* a timestamp equal to maxCompletion is not examined.
C14_WalkStopsBeforeMaxCompletion ==
    MetricsWalked =>
        /\ \A k \in 1..Len(summary.walked) :
              /\ summary.walked[k] = MinCreate + 60 * (k - 1)
              /\ summary.walked[k] < MaxCompletion
        /\ MinCreate + 60 * Len(summary.walked) >= MaxCompletion

C14_Witness ==
    /\ MetricsWalked
    /\ MaxCompletion = MinCreate + 120
    /\ summary.walked = <<MinCreate, MinCreate + 60>>
    /\ WaitingAt(MaxCompletion) # {}
    /\ summary.elapsed_wait_minutes = 2

\* C15 as claimed: with a retained task info, one summary is written to
\* the audit log and it carries all five values.
C15_RecordCarriesFiveValues ==
    MetricsWalked =>
        /\ Len(records) = 1
        /\ {"aggregate_build_secs", "aggregate_wait_secs",
            "elapsed_wait_minutes", "elapsed_total_minutes", "task_count"}
               \subseteq DOMAIN records[1]

\* C15 amended: with a retained task info, exactly one image_build_metrics
\* record is added, and it carries three values: the wasted-wait minutes,
\* the whole minutes of maxCompletion - minCreate and the number of
\* retained task infos; the two aggregate sums are computed and logged but
\* are not in the record.
C15_RecordCarriesThreeValues ==
    MetricsWalked =>
        /\ Len(records) = 1
        /\ DOMAIN records[1] = {"type", "elapsed_wait_minutes",
                                "elapsed_total_minutes", "task_count"}
        /\ records[1].type = "image_build_metrics"
        /\ records[1].elapsed_wait_minutes =
              Cardinality({k \in 1..Len(summary.walked) :
                              WaitingAt(summary.walked[k]) # {}})
        /\ records[1].elapsed_total_minutes =
              (MaxCompletion - MinCreate) \div 60
        /\ records[1].task_count = Cardinality(RetainedIdx)
        /\ summary.aggregate_build_secs =
              SumOver(RetainedIdx, watch_task_info, "build")

C15_Witness ==
    /\ MetricsWalked
    /\ Len(records) = 1
    /\ records[1].task_count = 2
    /\ records[1].elapsed_total_minutes = 1
    /\ MaxCompletion - MinCreate = 80
    /\ summary.aggregate_build_secs > 0
    /\ summary.aggregate_wait_secs > 0

\* Two results of the aggregator give the same values.
SameSummary(a, b) ==
    /\ a.raised = b.raised
    /\ a.aggregate_build_secs = b.aggregate_build_secs
    /\ a.aggregate_wait_secs = b.aggregate_wait_secs
    /\ a.elapsed_wait_minutes = b.elapsed_wait_minutes
    /\ a.elapsed_total_minutes = b.elapsed_total_minutes
    /\ a.task_count = b.task_count
    /\ a.walked = b.walked
    /\ a.added = b.added
    /\ Range(a.kept) = Range(b.kept)

\* C16: a second run of the aggregator over the same task infos, iterated
\* in any order, computes the same values and adds the same record as the
\* first, and no run changes the watched task infos the next one reads.
C16_Deterministic ==
    /\ [](cmd = "print_build_metrics" /\ pc = "again"
            => SameSummary(summary, summary2))
    /\ [][cmd = "print_build_metrics"
            => watch_task_info' = watch_task_info]_vars

C16_Witness ==
    /\ cmd = "print_build_metrics" /\ pc = "again"
    /\ Len(summary.kept) = 2
    /\ summary.kept[1] # summary.kept[2]
    /\ summary.kept[1].create_ts # summary.kept[2].create_ts
    /\ summary2.kept = <<summary.kept[2], summary.kept[1]>>
    /\ summary2.added = summary.added
    /\ Len(records) = 2

\* No worker of the pool was started and no per-target operation was made.
NoWorkDone ==
    /\ pc \notin {"exec", "metrics", "check", "late"}
    /\ results = <<>>
    /\ \A t \in Targets : task[t] = "pending" /\ outcome[t] = "none"
    /\ pushed = {} /\ lateCalls = {} /\ pushedLate = {}

\* C17 as claimed: rpms:build and images:build with an empty target set
\* exit with status 0 without calling parallel_exec.
C17_EmptyRunExitsZero ==
    (cmd \in {"rpms:build", "images:build"} /\ n = 0) =>
        /\ NoWorkDone
        /\ pc = "done" => exitStatus = 0

\* C17 amended: with an empty target set neither command calls
\* parallel_exec; rpms:build exits with status 0 and images:build with
\* status 1, whatever its other options.
C17_EmptyRunExitsByCommand ==
    (cmd \in {"rpms:build", "images:build"} /\ n = 0) =>
        /\ NoWorkDone
        /\ pc \in {"start", "done"}
        /\ (pc = "done" /\ cmd = "rpms:build") => exitStatus = 0
        /\ (pc = "done" /\ cmd = "images:build") => exitStatus = 1

C17_Witness ==
    /\ cmd = "images:build" /\ n = 0 /\ opts.hasRepo
    /\ pc = "done" /\ exitStatus = 1
    /\ NoWorkDone

\* C18: images:build with neither --repo-type nor --repo and images:push
\* with neither --to-defaults nor --to exit with a non-zero status, and
\* no worker is started and no per-target build or push is made before.
C18_MissingInputFatalBeforeWork ==
    (\/ cmd = "images:build" /\ ~opts.hasRepo
     \/ cmd = "images:push" /\ ~opts.hasDest) =>
        /\ NoWorkDone
        /\ pc \in {"start", "done"}
        /\ pc = "done" => exitStatus # 0

C18_Witness ==
    /\ cmd = "images:push" /\ ~opts.hasDest /\ ~opts.late_only
    /\ n = MaxTargets /\ late[1]
    /\ pc = "done" /\ exitStatus = 1
    /\ NoWorkDone

\* The images whose verification result has status 'failed'
FailedVerifications == {t \in Items : outcome[t] = "failed"}

\* C19: images:verify exits with the number of images whose verification
\* result is 'failed' as its status, 0 when none failed; the fail log is
\* written, with those images, and the working directory is marked to be
\* kept exactly when that number is above 0.
C19_VerifyExitsWithFailedCount ==
    (cmd = "images:verify" /\ pc = "done") =>
        /\ \A t \in Items : outcome[t] \in {"passed", "failed"}
        /\ exitStatus = Cardinality(FailedVerifications)
        /\ fail_log.written <=> Cardinality(FailedVerifications) > 0
        /\ ~remove_tmp_working_dir <=> Cardinality(FailedVerifications) > 0
        /\ Range(fail_log.data) = FailedVerifications

C19_Witness ==
    /\ cmd = "images:verify" /\ pc = "done" /\ n = 3
    /\ outcome[1] = "failed" /\ outcome[2] = "passed" /\ outcome[3] = "failed"
    /\ exitStatus = 2
    /\ fail_log = [written |-> TRUE, data |-> <<1, 3>>]
    /\ ~remove_tmp_working_dir

RECURSIVE Pow10(_)
Pow10(e) == IF e = 0 THEN 1 ELSE 10 * Pow10(e - 1)

\* The number a string of decimal digits writes
RECURSIVE DecimalValue(_)
DecimalValue(s) ==
    IF s = <<>> THEN 0
    ELSE (CHOOSE k \in 0..9 : ToString(k) = Head(s)) * Pow10(Len(s) - 1)
         + DecimalValue(Tail(s))

ReleaseResolved == cmd = "update_distgit_dir" /\ pc = "done"

\* C20: the requested release "+" bumps the current numeric release by one
\* (5 gives 6) and gives 1 when the target has no release; no release or
\* an empty one clears the release; any other value, one that merely
\* contains a "+" included, is the release as it stands (9 gives 9).
C20_ReleasePolicy ==
    ReleaseResolved =>
        /\ (release = <<"+">> /\ current_release # <<"None">>) =>
              /\ \A i \in 1..Len(real_release) :
                    real_release[i] \in {ToString(k) : k \in 0..9}
              /\ DecimalValue(real_release) = DecimalValue(current_release) + 1
              /\ Len(real_release) > 1 => real_release[1] # "0"
        /\ (release = <<"+">> /\ current_release = <<"5">>) =>
              real_release = <<"6">>
        /\ (release = <<"+">> /\ current_release = <<"None">>) =>
              real_release = <<"1">>
        /\ release \in {<<"None">>, <<>>} => real_release = <<>>
        /\ release \notin {<<"+">>, <<"None">>, <<>>} => real_release = release

C20_Witness ==
    /\ ReleaseResolved
    /\ release = <<"+">>
    /\ current_release = <<"5", "9">>
    /\ real_release = <<"6", "0">>

\* The records of the log that worker w added
RecordsOf(w) == {i \in 1..Len(records) : records[i].distgit = w}

\* C21: the record log only grows at its end, one record per call of
\* add_record and of the type the caller gave, the earlier records staying
\* as they were; whatever the interleaving of the calls of k workers, each
\* finished call has exactly one record in the log and k finished calls
\* leave exactly k records.
C21_AppendOnlyNothingLost ==
    /\ [](cmd = "add_record" =>
            /\ \A w \in Items :
                  /\ writer[w].pc = "done" =>
                        /\ Cardinality(RecordsOf(w)) = 1
                        /\ \A i \in RecordsOf(w) :
                              records[i].type = writer[w].type
                  /\ writer[w].pc # "done" => RecordsOf(w) = {}
            /\ Len(records) =
                  Cardinality({w \in Items : writer[w].pc = "done"}))
    /\ [][cmd = "add_record" =>
            \/ records' = records
            \/ /\ Len(records') = Len(records) + 1
               /\ SubSeq(records', 1, Len(records)) = records]_vars

C21_Witness ==
    /\ cmd = "add_record" /\ n = 3
    /\ \A w \in Items : writer[w].pc = "done"
    /\ Len(records) = 3
    /\ records[1].distgit = 2 /\ records[2].distgit = 3
    /\ records[3].distgit = 1
    /\ records[1].type # records[2].type

\* The targets of the wave whose result is falsy
FalsyTargets == {t \in Items : results[t] # "True"}

\* C22: once the failure check of rpms:build, images:build or images:push
\* is made, the failure summary lists the distgit keys of exactly the
\* targets with a falsy result, each once and in ascending order, and the
\* command has exited with a non-zero status; with no falsy result nothing
\* is listed and an exit of the command has status 0.
C22_SortedFailureSummary ==
    Checked =>
        /\ Range(failure_log) = {distgit_key(t) : t \in FalsyTargets}
        /\ Len(failure_log) = Cardinality(FalsyTargets)
        /\ \A i, j \in 1..Len(failure_log) :
              i < j => failure_log[i] < failure_log[j]
        /\ FalsyTargets # {} => (pc = "done" /\ exitStatus # 0)
        /\ (FalsyTargets = {} /\ pc = "done") => exitStatus = 0

C22_Witness ==
    /\ Checked /\ n = 3
    /\ results = <<"False", "True", "False">>
    /\ failed = <<distgit_key(1), distgit_key(3)>>
    /\ failure_log = <<distgit_key(3), distgit_key(1)>>
    /\ pc = "done" /\ exitStatus = 1

\* C23 as claimed: for COUNT = N >= 1 each git revert that images:revert
\* runs reverts exactly the N most recent commits, and for COUNT < 1 no
\* git revert is run in any distgit.
C23_RevertCoversCount ==
    cmd = "images:revert" =>
        /\ count >= 1 =>
              \A i \in 1..Len(reverts) :
                  reverts[i].status = 0 => reverts[i].reverted = count
        /\ count < 1 => reverts = <<>>

\* The command of images:foreach returned a non-zero status in the distgit
\* of some target.
ForeachCommandFailed ==
    /\ cmd = "images:foreach"
    /\ raisedAt # 0
    /\ stage[raisedAt] = 0

\* C24 as claimed: in images:foreach with a commit message, when the
\* command returns non-zero in any directory, no distgit has been committed
\* by the run and nothing is pushed.
C24_NoCommitUnlessAllSucceed ==
    (ForeachCommandFailed /\ opts.message) =>
        /\ \A t \in Items : stage[t] < 2
        /\ ~distgitsPushed

\* The metrics step or the late-push pass of images:build has started.
AfterWaveStarted ==
    \/ pc \in {"metrics", "check", "late"}
    \/ metrics # "none"
    \/ lateCalls # {}

\* In images:build the metrics step and the late-push pass start only after
\* every build operation has finished and its result has been gathered.
BuildStagesAfterGather ==
    (cmd = "images:build" /\ AfterWaveStarted) =>
        /\ \A t \in Items : task[t] = "done"
        /\ Len(results) = n

Tagged == {t \in Items : stage[t] >= 3}

\* The targets of images:rebase whose distgit_commit record is written.
Recorded == {t \in Items : stage[t] = 4}

\* C26: in images:rebase each target passes through clone, rebase, commit
\* and tag in that order, one step at a time, and then exactly one
\* distgit_commit record with that target's own commit sha is appended, the
\* records being in target order; push_distgits is called at most once,
\* only with --push and only after every selected target has been tagged
\* and recorded.
C26_RebaseStepOrderRecordAndPush ==
    /\ [](cmd = "images:rebase" =>
            /\ \A t \in Items : stage[t] >= 1 => cloned
            /\ Recorded \subseteq Tagged
            /\ Len(records) = Cardinality(Recorded)
            /\ \A i \in 1..Len(records) :
                   /\ i \in Recorded
                   /\ records[i] = [type |-> "distgit_commit", distgit |-> i,
                                    sha |-> 100 + i]
            /\ distgitsPushed =>
                   /\ opts.push /\ pc = "done"
                   /\ Tagged = Items /\ Recorded = Items)
    /\ [][cmd = "images:rebase" =>
            /\ \A t \in Items :
                   /\ stage'[t] \in {stage[t], stage[t] + 1}
                   /\ stage'[t] = 4 /\ stage[t] = 3 =>
                          records' = Append(records,
                                            [type |-> "distgit_commit",
                                             distgit |-> t, sha |-> 100 + t])
            /\ records' # records =>
                   \E t \in Items : stage[t] = 3 /\ stage'[t] = 4
            /\ distgitsPushed' # distgitsPushed =>
                   ~distgitsPushed /\ pc = "loop" /\ pc' = "done"
            /\ pc = "done" => UNCHANGED <<stage, records, distgitsPushed>>]_vars

C26_Witness ==
    /\ cmd = "images:rebase" /\ n = MaxTargets /\ opts.push
    /\ distgitsPushed /\ pc = "done"
    /\ Len(records) = n /\ records[n].sha = CommitSha(n)

====
